---- MODULE Spec2Model ----
(***************************************************************************)
(* A model of scraper.py: one call of fetch_multiple_data(fund,            *)
(* data_points), with get_driver, login, the fund search, the per-kind     *)
(* extraction loop (click_and_extract), the except handler and the         *)
(* finally block.  Every Selenium call that can raise is a step that       *)
(* either succeeds or raises; texts are sequences of tokens.               *)
(***************************************************************************)
EXTENDS Integers, Sequences, FiniteSets, TLC

\* Longest data_points list of a call.
MaxPoints == 2

\* The strings a caller passes as data points: a kind of the function
\* schema, the one other key of XPATHS, and a string that is no key of it.
RequestedStrings == {"mer", "overview_tab", "nav"}

\* XPATHS (scraper.py 30-35)
XPATHS ==
  [ overview_tab |-> "//span[text()='Overview']",
    mer          |-> "//div[@class='sal-dp-pair'][.//div[@class='sal-dp-name' and normalize-space(text())='Total Cost Ratio (Prospective)']]//div[@class='sal-dp-value']",
    performance  |-> "//div[@class='sal-dp-pair'][.//div[@class='sal-dp-name' and normalize-space(text())='1 Yr Return']]//div[@class='sal-dp-value']",
    fund_profile |-> "//div[@class='sal-mip-strategy-content']//div[@class='sal-mip-strategy__body']" ]

\* chrome_binaries (scraper.py 71-76), in list order
chrome_binaries ==
  << "/usr/bin/chromium", "/usr/bin/chromium-browser",
     "/usr/bin/chrome", "/usr/bin/google-chrome" >>

\* What glob.glob("/nix/store/*/bin/chromium") can return on Replit.
NixChromium == { <<>>, <<"/nix/store/a/bin/chromium">>,
                 <<"/nix/store/a/bin/chromium", "/nix/store/b/bin/chromium">> }

\* What glob.glob("/nix/store/*/bin/chromedriver") can return on Replit.
NixChromedriver == { <<>>, <<"/nix/store/c/bin/chromedriver">> }

\* The text of a value element as the page holds it (elem.text).
RawTexts == { <<" ", "1.23%", " ">>, <<"8.5%", " ", "pa">> }

Whitespace == {" "}

VARIABLES
  data_points,  \* the list the caller passed
  pc,           \* where fetch_multiple_data is
  step,         \* the position inside get_driver, login, the search or click_and_extract
  idx,          \* the position of the for loop in data_points (1-based)
  driver,       \* the local `driver` of fetch_multiple_data: "None" or a handle
  results,      \* the local `results` dict
  retval,       \* <<>> until a return statement ran, then <<the dict returned>>
  exc,          \* <<>> or <<str(e)>> of the exception in flight
  gd,           \* the locals of get_driver
  launched,     \* browser instances started by webdriver.Chrome
  quit_calls,   \* calls of driver.quit()
  log,          \* every step taken, in order
  calls,        \* two concurrent calls: the locals of each (ConcSpec)
  browsers,     \* two concurrent calls: every browser instance launched (ConcSpec)
  page,         \* dismiss_popups alone: the elements of the page (PopupSpec)
  popups        \* dismiss_popups alone: the page at the start, and each call's outcome

\* the state of one call of fetch_multiple_data
call_vars == << data_points, pc, step, idx, driver, results, retval, exc, gd,
                launched, quit_calls, log >>

\* the state of two concurrent calls
conc_vars == << calls, browsers >>

\* the state of a page under dismiss_popups
popup_vars == << page, popups >>

vars == << call_vars, conc_vars, popup_vars >>

----------------------------------------------------------------------------
\* Helpers

Range(s) == { s[j] : j \in 1..Len(s) }

SeqsUpTo(S, n) == UNION { [1..m -> S] : m \in 0..n }

EmptyDict == [k \in {} |-> <<>>]

\* results[k] = v
DictSet(d, k, v) == [x \in (DOMAIN d) \cup {k} |-> IF x = k THEN v ELSE d[x]]

\* One entry of the log: function fn ran the call `op` of source line `line`
\* for data point `arg`; ok = it returned; text = str(e) when it raised, and
\* for the read of line 205 the text of the element before strip().
Event(fn, s, ok, arg, text) ==
  [fn |-> fn, op |-> s.op, line |-> s.line, ok |-> ok, arg |-> arg, text |-> text]

St(op, line) == [op |-> op, line |-> line]

\* The waits: wait.until(...) raises TimeoutException with an empty message.
WaitOps ==
  { "wait_sign_in", "wait_username", "wait_continue", "wait_password",
    "wait_submit", "wait_search_marker", "wait_main_search", "wait_sec_search",
    "wait_suggestion", "wait_overview_tab", "wait_value" }

\* str(e) of the exception a failing Selenium call raises at a step: the
\* text comes from Selenium and says nothing of where the caller was:
\* "Message: " for a timed-out wait, the driver's error for any other call.
StrExc(s) ==
  IF s.op \in WaitOps THEN <<"Message: ">> ELSE <<"Message: ", "WebDriverException">>

\* str(KeyError(k))
StrKeyError(k) == <<"'", k, "'">>

\* str.strip()
RECURSIVE LStrip(_)
LStrip(s) == IF s # <<>> /\ Head(s) \in Whitespace THEN LStrip(Tail(s)) ELSE s

RECURSIVE RStrip(_)
RStrip(s) == IF s # <<>> /\ s[Len(s)] \in Whitespace
               THEN RStrip(SubSeq(s, 1, Len(s) - 1)) ELSE s

Strip(s) == RStrip(LStrip(s))

\* f"Error during fetch process: {str(e)}"
ErrorDuringFetch(msg) == <<"Error during fetch process: ">> \o msg

\* f"Error fetching {data_point}: {str(e)}"
ErrorFetching(k, msg) == <<"Error fetching ", k, ": ">> \o msg

\* The locals of get_driver before it runs and after it has left.
GdNone ==
  [ replit |-> FALSE, existing |-> {}, chrome_bins |-> <<>>,
    chromedrivers |-> <<>>, binary_location |-> "", service |-> "" ]

\* FirstExisting without the break of line 81: the last existing path wins.
RECURSIVE LastExisting(_, _)
LastExisting(bins, existing) ==
  IF bins = <<>> THEN ""
  ELSE IF bins[Len(bins)] \in existing THEN bins[Len(bins)]
  ELSE LastExisting(SubSeq(bins, 1, Len(bins) - 1), existing)

\* for binary in chrome_binaries: if os.path.exists(binary): ...; break
RECURSIVE FirstExisting(_, _)
FirstExisting(bins, existing) ==
  IF bins = <<>> THEN ""
  ELSE IF Head(bins) \in existing THEN Head(bins)
  ELSE FirstExisting(Tail(bins), existing)

----------------------------------------------------------------------------
Init ==
  /\ data_points \in SeqsUpTo(RequestedStrings, MaxPoints)
  /\ pc = "get_driver"
  /\ step = 1
  /\ idx = 1
  /\ driver = "None"
  /\ results = EmptyDict
  /\ retval = <<>>
  /\ exc = <<>>
  /\ gd = GdNone
  /\ launched = 0
  /\ quit_calls = 0
  /\ log = <<>>
  /\ calls = <<>>
  /\ browsers = <<>>
  /\ page = {}
  /\ popups = <<>>

----------------------------------------------------------------------------
\* LoginSteps without the wait for the search bar of line 176.
LoginStepsNoMarkerWait ==
  << St("get_logout", 136), St("dismiss_popups", 143),
     St("wait_sign_in", 147), St("click_sign_in", 148),
     St("wait_username", 152), St("clear_username", 153),
     St("send_username", 154),
     St("wait_continue", 157), St("click_continue", 157),
     St("wait_password", 164), St("clear_password", 165),
     St("send_password", 166),
     St("wait_submit", 169), St("click_submit", 169),
     St("dismiss_popups", 181) >>

\* The calls of login(driver), in order (scraper.py 136-181)
LoginSteps ==
  << St("get_logout", 136), St("dismiss_popups", 143),
     St("wait_sign_in", 147), St("click_sign_in", 148),
     St("wait_username", 152), St("clear_username", 153),
     St("send_username", 154),
     St("wait_continue", 157), St("click_continue", 157),
     St("wait_password", 164), St("clear_password", 165),
     St("send_password", 166),
     St("wait_submit", 169), St("click_submit", 169),
     St("wait_search_marker", 176), St("dismiss_popups", 181) >>

\* The calls of the fund search of fetch_multiple_data (scraper.py 232-256)
SearchSteps ==
  << St("wait_main_search", 232), St("click_main_search", 233),
     St("dismiss_popups", 237),
     St("wait_sec_search", 240), St("clear_sec_search", 241),
     St("send_fund", 242),
     St("wait_suggestion", 247), St("click_suggestion", 248),
     St("wait_overview_tab", 253), St("dismiss_popups", 256) >>

\* ExtractSteps without the second dismiss_popups of line 201.
ExtractStepsOneDismiss ==
  << St("dismiss_popups", 191), St("wait_overview_tab", 195),
     St("click_overview_tab", 197),
     St("wait_value", 204), St("read_text", 205) >>

\* The calls of click_and_extract(driver, xpath) (scraper.py 191-205)
ExtractSteps ==
  << St("dismiss_popups", 191), St("wait_overview_tab", 195),
     St("click_overview_tab", 197), St("dismiss_popups", 201),
     St("wait_value", 204), St("read_text", 205) >>

\* dismiss_popups catches everything its script raises (scraper.py 129-130):
\* a dismiss_popups step never raises into its caller.
CanRaise(s) == s.op # "dismiss_popups"

\* Handler, had the search been wrapped in a try of its own that logs and goes on.
HandlerSearchGoesOn(site) ==
  IF site \in {"lookup", "click_and_extract"} THEN "loop_except"
  ELSE IF site = "search" THEN "loop" ELSE "except"

\* Handler, had the loop body no try of its own.
HandlerNoLoopTry(site) == "except"

\* Handler, had the lookup of line 262 stood outside the loop's try.
HandlerLookupOuter(site) ==
  IF site = "click_and_extract" THEN "loop_except" ELSE "except"

\* Handler, had get_driver() been called before the try statement.
HandlerDriverOutsideTry(site) ==
  IF site \in {"lookup", "click_and_extract"} THEN "loop_except"
  ELSE IF site = "get_driver" THEN "finally" ELSE "except"

\* The except clause of fetch_multiple_data that catches an exception raised
\* at a site of its try block: the loop's own (265) inside the loop body,
\* the outer one (272) everywhere else.
Handler(site) ==
  IF site \in {"lookup", "click_and_extract"} THEN "loop_except" ELSE "except"

\* Where control goes, and with which exception, when a call raises.
Thrown(site, msg) == [pc |-> Handler(site), exc |-> msg]

\* login_except without the `raise`: login returns normally after a failure.
login_except_no_raise(msg) == [pc |-> "search", exc |-> <<>>]

\* login's except clause: print, then re-raise (scraper.py 183-185)
login_except(msg) == Thrown("login", msg)

\* click_and_extract's except clause: print, then re-raise (scraper.py 206-208)
click_and_extract_except(msg) == Thrown("click_and_extract", msg)

Transfer(t) ==
  /\ pc' = t.pc
  /\ exc' = t.exc
  /\ step' = 1

\* Lookup as XPATHS.get(data_point): no KeyError, None for an unknown key.
LookupGet(k) ==
  [found |-> TRUE, xpath |-> IF k \in DOMAIN XPATHS THEN XPATHS[k] ELSE "None"]

\* XPATHS[data_point] (scraper.py 262): found, or KeyError
Lookup(k) ==
  IF k \in DOMAIN XPATHS THEN [found |-> TRUE, xpath |-> XPATHS[k]]
  ELSE [found |-> FALSE, xpath |-> ""]

\* DataPointAt, had the loop run over reversed(data_points).
DataPointAtReversed(dps, i) == dps[Len(dps) - i + 1]

\* data_point of the for loop's iteration i (scraper.py 259)
DataPointAt(dps, i) == dps[i]

\* FillErrors without the loop of lines 276-277.
FillErrorsNothing(d, dps, msg) == d

\* for data_point in data_points: results[data_point] = error_msg (276-277)
RECURSIVE FillErrors(_, _, _)
FillErrors(d, dps, msg) ==
  IF dps = <<>> THEN d
  ELSE FillErrors(DictSet(d, Head(dps), msg), Tail(dps), msg)

\* ShouldQuit without the test of line 281.
ShouldQuitAlways(d) == TRUE

\* if driver: (scraper.py 281)
ShouldQuit(d) == d # "None"

\* quit_except, had the clause returned the quit error for every data point.
quit_except_reports(ret, dps, msg) ==
  << [k \in Range(dps) |-> <<"Error during fetch process: ">> \o msg] >>

\* The value the call returns after driver.quit() raised: the except clause
\* of the finally block is `pass` (scraper.py 285-286)
quit_except(ret, dps, msg) == ret

----------------------------------------------------------------------------
\* get_driver, lines 56-81: the environment is read and the binary chosen.
get_driver_probe ==
  /\ UNCHANGED << conc_vars, popup_vars >>
  /\ pc = "get_driver" /\ step = 1
  /\ \/ \E bins \in NixChromium, drvs \in NixChromedriver :
          gd' = [ replit |-> TRUE, existing |-> {}, chrome_bins |-> bins,
                  chromedrivers |-> drvs,
                  binary_location |-> IF bins # <<>> THEN bins[1] ELSE "",
                  service |-> IF drvs # <<>> THEN drvs[1] ELSE "" ]
     \/ \E existing \in SUBSET Range(chrome_binaries) :
          gd' = [ replit |-> FALSE, existing |-> existing, chrome_bins |-> <<>>,
                  chromedrivers |-> <<>>,
                  binary_location |-> FirstExisting(chrome_binaries, existing),
                  service |-> "" ]
  /\ step' = 2
  /\ log' = Append(log, Event("get_driver", St("probe", 56), TRUE, "", <<>>))
  /\ UNCHANGED << data_points, pc, idx, driver, results, retval, exc,
                  launched, quit_calls >>

\* get_driver leaves by raising: its locals are gone, `driver` of the caller
\* keeps its value (the assignment of line 224 never happens).
GetDriverRaise(s) ==
  /\ Transfer(Thrown("get_driver", StrExc(s)))
  /\ gd' = GdNone
  /\ log' = Append(log, Event("get_driver", s, FALSE, "", StrExc(s)))
  /\ UNCHANGED << data_points, idx, driver, results, retval, launched, quit_calls >>

\* webdriver.Chrome(...) returned: one more browser runs.
GetDriverLaunched(s) ==
  /\ launched' = launched + 1
  /\ step' = 4
  /\ log' = Append(log, Event("get_driver", s, TRUE, "", <<>>))
  /\ UNCHANGED << data_points, pc, idx, driver, results, retval, exc, quit_calls >>

\* get_driver, lines 63-68 (Replit) and 83-92 (local): the first
\* webdriver.Chrome call.
get_driver_launch ==
  /\ UNCHANGED << conc_vars, popup_vars >>
  /\ pc = "get_driver" /\ step = 2
  /\ IF gd.replit
       THEN \* line 66 with a Service, line 68 without
            LET s == IF gd.chromedrivers # <<>> THEN St("Chrome", 66)
                                                ELSE St("Chrome", 68) IN
            \/ GetDriverLaunched(s) /\ UNCHANGED gd
            \/ GetDriverRaise(s)
       ELSE \* lines 84-90: webdriver_manager installs a driver, or raises
            \/ \E wm \in {"chromium", "default"} :
                 /\ gd' = [gd EXCEPT !.service = wm]
                 /\ GetDriverLaunched(St("Chrome", 92))
            \* line 92 or one of lines 84-90 raised: line 93 catches it
            \/ /\ step' = 3
               /\ log' = Append(log, Event("get_driver", St("webdriver_manager", 93),
                                           FALSE, "", <<>>))
               /\ UNCHANGED << data_points, pc, idx, driver, results, retval,
                               exc, gd, launched, quit_calls >>

\* get_driver, line 95: the second webdriver.Chrome call of the local branch.
get_driver_fallback ==
  /\ UNCHANGED << conc_vars, popup_vars >>
  /\ pc = "get_driver" /\ step = 3
  /\ \/ GetDriverLaunched(St("Chrome", 95)) /\ UNCHANGED gd
     \/ GetDriverRaise(St("Chrome", 95))

\* get_driver, lines 97-99: the two timeouts are set on the running browser
\* and the driver is returned, or one of the two calls raises.
get_driver_configure ==
  /\ UNCHANGED << conc_vars, popup_vars >>
  /\ pc = "get_driver" /\ step = 4
  /\ \/ /\ driver' = "driver"
        /\ pc' = "login"
        /\ step' = 1
        /\ gd' = GdNone
        /\ log' = Append(log, Event("get_driver", St("configure", 97), TRUE, "", <<>>))
        /\ UNCHANGED << data_points, idx, results, retval, exc, launched, quit_calls >>
     \/ GetDriverRaise(St("configure", 97))

\* login(driver), lines 134-185, one call at a time.
login ==
  /\ UNCHANGED << conc_vars, popup_vars >>
  /\ pc = "login"
  /\ LET s == LoginSteps[step] IN
     \/ /\ log' = Append(log, Event("login", s, TRUE, "", <<>>))
        /\ IF step = Len(LoginSteps)
             THEN pc' = "search" /\ step' = 1
             ELSE pc' = pc /\ step' = step + 1
        /\ UNCHANGED exc
     \/ /\ CanRaise(s)
        /\ log' = Append(log, Event("login", s, FALSE, "", StrExc(s)))
        /\ Transfer(login_except(StrExc(s)))
  /\ UNCHANGED << data_points, idx, driver, results, retval, gd, launched, quit_calls >>

\* The fund search of fetch_multiple_data, lines 230-256, one call at a time.
search ==
  /\ UNCHANGED << conc_vars, popup_vars >>
  /\ pc = "search"
  /\ LET s == SearchSteps[step] IN
     \/ /\ log' = Append(log, Event("search", s, TRUE, "", <<>>))
        /\ IF step = Len(SearchSteps)
             THEN pc' = "loop" /\ step' = 1
             ELSE pc' = pc /\ step' = step + 1
        /\ UNCHANGED exc
     \/ /\ CanRaise(s)
        /\ log' = Append(log, Event("search", s, FALSE, "", StrExc(s)))
        /\ Transfer(Thrown("search", StrExc(s)))
  /\ UNCHANGED << data_points, idx, driver, results, retval, gd, launched, quit_calls >>

\* LoopDone, had the return of line 270 stood inside the loop body: the
\* function returns after the first iteration.
ReturnInsideLoop(dps, i) == i > Len(dps) \/ i > 1

\* for data_point in data_points (scraper.py 259) is exhausted: line 270 runs
LoopDone(dps, i) == i > Len(dps)

\* The head of the for loop (259) and XPATHS[data_point] (262); after the
\* last data point, return results (270).
for_loop ==
  /\ UNCHANGED << conc_vars, popup_vars >>
  /\ pc = "loop"
  /\ IF LoopDone(data_points, idx)
       THEN /\ retval' = <<results>>
            /\ pc' = "finally"
            /\ UNCHANGED << step, exc, log >>
       ELSE LET dp == DataPointAt(data_points, idx)
                s  == St("XPATHS", 262) IN
            /\ IF Lookup(dp).found
                 THEN /\ pc' = "extract" /\ step' = 1 /\ UNCHANGED exc
                      /\ log' = Append(log, Event("lookup", s, TRUE, dp, <<>>))
                 ELSE /\ Transfer(Thrown("lookup", StrKeyError(dp)))
                      /\ log' = Append(log, Event("lookup", s, FALSE, dp, StrKeyError(dp)))
            /\ UNCHANGED retval
  /\ UNCHANGED << data_points, idx, driver, results, gd, launched, quit_calls >>

\* click_and_extract(driver, xpath), lines 187-208, one call at a time; its
\* last call returns the stripped text, which line 263 stores.
click_and_extract ==
  /\ UNCHANGED << conc_vars, popup_vars >>
  /\ pc = "extract"
  /\ LET s  == ExtractSteps[step]
         dp == DataPointAt(data_points, idx) IN
     \/ /\ step < Len(ExtractSteps)
        /\ log' = Append(log, Event("click_and_extract", s, TRUE, dp, <<>>))
        /\ step' = step + 1
        /\ UNCHANGED << pc, exc, results, idx >>
     \/ /\ step = Len(ExtractSteps)
        /\ \E raw \in RawTexts :
             /\ results' = DictSet(results, dp, Strip(raw))
             /\ log' = Append(log, Event("click_and_extract", s, TRUE, dp, raw))
        /\ idx' = idx + 1
        /\ pc' = "loop"
        /\ step' = 1
        /\ UNCHANGED exc
     \/ /\ CanRaise(s)
        /\ log' = Append(log, Event("click_and_extract", s, FALSE, dp, StrExc(s)))
        /\ Transfer(click_and_extract_except(StrExc(s)))
        /\ UNCHANGED << results, idx >>
  /\ UNCHANGED << data_points, driver, retval, gd, launched, quit_calls >>

\* The except clause of the loop body, lines 265-268.
loop_except ==
  /\ UNCHANGED << conc_vars, popup_vars >>
  /\ pc = "loop_except"
  /\ LET dp == DataPointAt(data_points, idx) IN
       results' = DictSet(results, dp, ErrorFetching(dp, exc))
  /\ exc' = <<>>
  /\ idx' = idx + 1
  /\ pc' = "loop"
  /\ UNCHANGED << data_points, step, driver, retval, gd, launched, quit_calls, log >>

\* The except clause of fetch_multiple_data, lines 272-278.
outer_except ==
  /\ UNCHANGED << conc_vars, popup_vars >>
  /\ pc = "except"
  /\ results' = FillErrors(results, data_points, ErrorDuringFetch(exc))
  /\ retval' = <<results'>>
  /\ exc' = <<>>
  /\ pc' = "finally"
  /\ UNCHANGED << data_points, step, idx, driver, gd, launched, quit_calls, log >>

\* The finally block, lines 279-286; then the call is over: it returned
\* retval[1], or, with retval = <<>>, the exception in exc left it.
finally ==
  /\ UNCHANGED << conc_vars, popup_vars >>
  /\ pc = "finally"
  /\ IF ShouldQuit(driver)
       THEN /\ quit_calls' = quit_calls + 1
            /\ \/ /\ log' = Append(log, Event("finally", St("quit", 283), TRUE, "", <<>>))
                  /\ UNCHANGED retval
               \/ LET s == St("quit", 283) IN
                  /\ log' = Append(log, Event("finally", s, FALSE, "", StrExc(s)))
                  /\ retval' = quit_except(retval, data_points, StrExc(s))
       ELSE UNCHANGED << quit_calls, log, retval >>
  /\ pc' = "done"
  /\ UNCHANGED << data_points, step, idx, driver, results, exc, gd, launched >>

Next ==
  \/ get_driver_probe
  \/ get_driver_launch
  \/ get_driver_fallback
  \/ get_driver_configure
  \/ login
  \/ search
  \/ for_loop
  \/ click_and_extract
  \/ loop_except
  \/ outer_except
  \/ finally

Spec == Init /\ [][Next]_vars

----------------------------------------------------------------------------
\* What the log says about a run

LogIdx == 1..Len(log)

\* get_driver left by raising (line 93 catches what lines 84-92 raise)
GetDriverRaised ==
  \E j \in LogIdx : log[j].fn = "get_driver" /\ ~log[j].ok /\ log[j].line # 93

LoginFailed == \E j \in LogIdx : log[j].fn = "login" /\ ~log[j].ok

SearchFailed == \E j \in LogIdx : log[j].fn = "search" /\ ~log[j].ok

\* login ran to its last line
LoginDone == \E j \in LogIdx : log[j].fn = "login" /\ log[j].line = 181

\* the search ran to its last line
SearchDone == \E j \in LogIdx : log[j].fn = "search" /\ log[j].line = 256

QuitRaised == \E j \in LogIdx : log[j].fn = "finally" /\ ~log[j].ok

\* str(e) of the exception that left function fn
FailText(fn) ==
  LET j == CHOOSE j \in LogIdx : log[j].fn = fn /\ ~log[j].ok /\ log[j].line # 93
  IN  log[j].text

InLoop(e) == e.fn \in {"lookup", "click_and_extract"}

IsLookup(e) == e.fn = "lookup"

\* the step that ends one iteration of the loop body
Final(e) == InLoop(e) /\ (~e.ok \/ e.op = "read_text")

\* the step that ends one call of click_and_extract
FinalExtract(e) == e.fn = "click_and_extract" /\ (~e.ok \/ e.op = "read_text")

Attempts == SelectSeq(log, Final)

Lookups == SelectSeq(log, IsLookup)

Extractions == SelectSeq(log, FinalExtract)

Registered(k) == k \in DOMAIN XPATHS

\* what an iteration that ended with e must have recorded for e.arg
Outcome(e) == IF e.ok THEN Strip(e.text) ELSE ErrorFetching(e.arg, e.text)

\* iteration n is the last one for its data point
LastIn(att, n) == \A m \in (n + 1)..Len(att) : att[m].arg # att[n].arg

LastFor(n) == LastIn(Attempts, n)

AllMapTo(text) ==
  /\ retval # <<>>
  /\ \A k \in Range(data_points) :
       k \in DOMAIN retval[1] /\ retval[1][k] = text

----------------------------------------------------------------------------
\* C1: the key set of the returned mapping is exactly the set of the
\* requested data points, whatever failed.
C1_KeySetExact ==
  retval # <<>> => DOMAIN retval[1] = Range(data_points)

C1_Witness ==
  /\ pc = "done" /\ SearchFailed
  /\ retval # <<>> /\ Cardinality(DOMAIN retval[1]) = 2

\* C2: after the call, as many browsers were quit as were launched, and none
\* twice.  The code breaks it: a browser launched by webdriver.Chrome whose
\* configuration (lines 97-98) raises is never quit.
C2_NoLeak ==
  pc = "done" => launched = quit_calls /\ quit_calls <= 1

\* C3: when login fails, every requested data point maps to the one
\* "Error during fetch process" text of that failure, and no search step and
\* no click_and_extract step ever runs.
C3_LoginFailureFatal ==
  LoginFailed =>
    /\ \A j \in LogIdx : log[j].fn \notin {"search", "lookup", "click_and_extract"}
    /\ pc \notin {"search", "loop", "extract", "loop_except"}
    /\ pc = "done" => AllMapTo(ErrorDuringFetch(FailText("login")))

C3_Witness ==
  /\ pc = "done" /\ LoginFailed
  /\ Cardinality(Range(data_points)) = 2
  /\ quit_calls = 1

\* C4: when a step of the fund search fails, every requested data point maps
\* to the one "Error during fetch process" text of that failure, and
\* click_and_extract is never called.
C4_SearchFailureFatal ==
  SearchFailed =>
    /\ \A j \in LogIdx : ~InLoop(log[j])
    /\ pc \notin {"loop", "extract", "loop_except"}
    /\ pc = "done" => AllMapTo(ErrorDuringFetch(FailText("search")))

C4_Witness ==
  /\ pc = "done"
  /\ \E j \in LogIdx : log[j].fn = "search" /\ ~log[j].ok /\ log[j].line = 247
  /\ Cardinality(Range(data_points)) = 2

\* C5: once the fund page is reached, every data point of the list gets its
\* own iteration, and the value returned for a data point is the outcome of
\* its own (last) iteration alone: the stripped text it read, or its own
\* "Error fetching" text; no failure aborts the loop or touches another
\* data point's entry.
C5_ExtractionsIndependent ==
  (pc = "done" /\ SearchDone) =>
    LET att == Attempts IN
    /\ retval # <<>>
    /\ Len(att) = Len(data_points)
    /\ \A n \in 1..Len(att) :
         /\ att[n].arg = data_points[n]
         /\ LastIn(att, n) =>
              /\ att[n].arg \in DOMAIN retval[1]
              /\ retval[1][att[n].arg] = Outcome(att[n])

C5_Witness ==
  /\ pc = "done" /\ Len(Attempts) = 2
  /\ Attempts[1].fn = "click_and_extract" /\ ~Attempts[1].ok
  /\ Attempts[2].ok /\ Attempts[2].text # Strip(Attempts[2].text)
  /\ Attempts[1].arg # Attempts[2].arg

\* C6: a data point that is no key of XPATHS gets the KeyError text as its
\* entry without any step of click_and_extract running for it, and the
\* registered data points of the list are extracted and recorded as if it
\* were not in the list.
C6_UnregisteredKindLocal ==
  /\ \A j \in LogIdx :
       (log[j].arg # "" /\ ~Registered(log[j].arg)) => log[j].fn = "lookup"
  /\ (pc = "done" /\ SearchDone) =>
       LET att == Attempts
           ext == Extractions IN
       /\ retval # <<>>
       /\ \A k \in Range(data_points) :
            ~Registered(k) =>
              k \in DOMAIN retval[1] /\ retval[1][k] = ErrorFetching(k, StrKeyError(k))
       /\ [n \in 1..Len(ext) |-> ext[n].arg] = SelectSeq(data_points, Registered)
       /\ \A n \in 1..Len(att) :
            (Registered(att[n].arg) /\ LastIn(att, n)) =>
              retval[1][att[n].arg] = Outcome(att[n])

C6_Witness ==
  /\ pc = "done"
  /\ data_points = <<"nav", "mer">>
  /\ retval # <<>> /\ DOMAIN retval[1] = {"nav", "mer"}
  /\ retval[1]["mer"] = <<"1.23%">>

\* C7: the call never ends with an exception leaving it: when the finally
\* block is reached a mapping has been returned, and no exception is in
\* flight when the call is over.
C7_NeverRaises ==
  /\ pc = "finally" => retval # <<>>
  /\ pc = "done" => retval # <<>> /\ exc = <<>>

C7_Witness ==
  /\ pc = "done" /\ retval # <<>>
  /\ QuitRaised
  /\ \E j \in LogIdx : log[j].fn = "click_and_extract" /\ ~log[j].ok
  /\ \E j \in LogIdx : log[j].fn = "lookup" /\ ~log[j].ok

\* the part of fetch_multiple_data a call belongs to, in program order
Phase(e) ==
  IF e.fn = "get_driver" THEN 0
  ELSE IF e.fn = "login" THEN 1
  ELSE IF e.fn = "search" THEN 2
  ELSE IF InLoop(e) THEN 3 ELSE 4

\* C8: the steps are totally ordered: login is over before the first search
\* step, the search is over before the first loop step, the loop takes the
\* data points in list order, and an iteration has ended, with its entry
\* recorded, before the next one starts.
C8_StepsOrdered ==
  LET searches  == { j \in LogIdx : log[j].fn = "search" }
      loops     == { j \in LogIdx : InLoop(log[j]) }
      loginEnd  == { j \in LogIdx : log[j].fn = "login" /\ log[j].line = 181 /\ log[j].ok }
      searchEnd == { j \in searches : log[j].line = 256 /\ log[j].ok }
      lks       == Lookups
  IN
  /\ \A j \in 1..(Len(log) - 1) : Phase(log[j]) <= Phase(log[j + 1])
  /\ searches # {} => \E i \in loginEnd : \A j \in searches : i < j
  /\ loops # {} => \E i \in searchEnd : \A j \in loops : i < j
  /\ Len(lks) <= Len(data_points)
  /\ \A n \in 1..Len(lks) : lks[n].arg = data_points[n]
  /\ \A j \in LogIdx :
       /\ (IsLookup(log[j]) /\ j > 1) =>
            \/ log[j - 1].fn = "search" /\ log[j - 1].line = 256
            \/ Final(log[j - 1])
       /\ log[j].fn = "click_and_extract" =>
            /\ j > 1 /\ InLoop(log[j - 1]) /\ log[j - 1].ok
            /\ log[j - 1].op # "read_text"
            /\ log[j - 1].arg = log[j].arg
  /\ pc \in {"loop", "extract", "loop_except"} =>
       /\ Len(Attempts) = IF pc = "loop_except" THEN idx ELSE idx - 1
       /\ \A m \in 1..(idx - 1) : data_points[m] \in DOMAIN results

C8_Witness ==
  /\ pc = "done" /\ Len(Extractions) = 2
  /\ Extractions[1].arg # Extractions[2].arg
  /\ ~Extractions[1].ok /\ Extractions[2].ok

\* C9: when get_driver raises, every requested data point maps to the one
\* "Error during fetch process" text of that failure, no login, search or
\* extraction step runs, and driver.quit() is not called.
C9_AcquisitionFailureFatal ==
  GetDriverRaised =>
    /\ \A j \in LogIdx : log[j].fn = "get_driver"
    /\ driver = "None"
    /\ quit_calls = 0
    /\ pc = "done" => AllMapTo(ErrorDuringFetch(FailText("get_driver")))

C9_Witness ==
  /\ pc = "done" /\ GetDriverRaised
  /\ launched = 0
  /\ Cardinality(Range(data_points)) = 2

\* C10: the finally block changes nothing of what the call returns: with
\* driver.quit() raising or not, the mapping returned is the one the return
\* statement fixed, and no exception comes out of the block.
C10_TeardownSwallowed ==
  [][pc = "finally" => (retval # <<>> /\ retval' = retval /\ exc' = <<>>)]_vars

C10_Witness ==
  /\ pc = "done" /\ QuitRaised
  /\ retval # <<>>
  /\ \E k \in DOMAIN retval[1] : retval[1][k] = <<"8.5%", " ", "pa">>

----------------------------------------------------------------------------
\* Two concurrent calls of fetch_multiple_data (ConcSpec).  The calls share
\* no variable of the module they write (driver and results are locals of
\* each call, lines 218-219); they meet only in the browser instances that
\* exist.  Each function called by fetch_multiple_data is one step here.

\* Longest data_points list of each of the two calls.
MaxConcPoints == 1

Calls == {1, 2}

\* The names of the browser instances webdriver.Chrome can hand out.
Handles == {"browser1", "browser2"}

\* The call is not running (the state of the one-call variables in ConcSpec
\* and PopupSpec).
CallIdle ==
  /\ data_points = <<>>
  /\ pc = "idle"
  /\ step = 1
  /\ idx = 1
  /\ driver = "None"
  /\ results = EmptyDict
  /\ retval = <<>>
  /\ exc = <<>>
  /\ gd = GdNone
  /\ launched = 0
  /\ quit_calls = 0
  /\ log = <<>>

\* NewDriver, had get_driver kept the first browser in a module-level cache.
CachedDriver(bs) ==
  IF DOMAIN bs # {} THEN CHOOSE h \in DOMAIN bs : TRUE
  ELSE CHOOSE h \in Handles : TRUE

\* webdriver.Chrome(...) (lines 66, 68, 92, 95) constructs a new instance on
\* every call of get_driver: a handle no earlier call of it returned.
NewDriver(bs) == CHOOSE h \in Handles : h \notin DOMAIN bs

\* fetch_multiple_data at line 218-219 of call c
CallStart(dps) ==
  [ data_points |-> dps, pc |-> "get_driver", idx |-> 1, driver |-> "None",
    results |-> EmptyDict, retval |-> <<>>, read_from |-> {} ]

ConcInit ==
  /\ CallIdle
  /\ page = {} /\ popups = <<>>
  /\ calls \in [Calls -> { CallStart(dps) : dps \in SeqsUpTo(RequestedStrings, MaxConcPoints) }]
  /\ browsers = <<>>

\* call c makes a Selenium call on its `driver`
Use(bs, h, c) == [bs EXCEPT ![h].users = @ \cup {c}]

\* lines 272-278 of call c, after `site` raised
ConcFatal(cl, site) ==
  LET filled == FillErrors(cl.results, cl.data_points, ErrorDuringFetch(StrExc(site)))
  IN  [cl EXCEPT !.results = filled, !.retval = <<filled>>, !.pc = "finally"]

\* line 224 of call c: get_driver returns a driver, raises before a browser
\* runs, or raises after one was launched (lines 97-98).
conc_get_driver(c) ==
  /\ calls[c].pc = "get_driver"
  /\ LET h == NewDriver(browsers)
         launched_bs == IF h \in DOMAIN browsers THEN browsers
                        ELSE [x \in DOMAIN browsers \cup {h} |->
                                IF x = h THEN [creator |-> c, users |-> {}, quit_by |-> <<>>]
                                ELSE browsers[x]]
     IN
     \/ /\ browsers' = launched_bs
        /\ calls' = [calls EXCEPT ![c].driver = h, ![c].pc = "login"]
     \/ /\ browsers' = launched_bs
        /\ calls' = [calls EXCEPT ![c] = ConcFatal(@, St("configure", 97))]
     \/ /\ UNCHANGED browsers
        /\ calls' = [calls EXCEPT ![c] = ConcFatal(@, St("Chrome", 95))]
  /\ UNCHANGED << call_vars, popup_vars >>

\* line 227 of call c: login(driver)
conc_login(c) ==
  /\ calls[c].pc = "login"
  /\ browsers' = Use(browsers, calls[c].driver, c)
  /\ \/ calls' = [calls EXCEPT ![c].pc = "search"]
     \/ calls' = [calls EXCEPT ![c] = ConcFatal(@, St("wait_sign_in", 147))]
  /\ UNCHANGED << call_vars, popup_vars >>

\* lines 230-256 of call c: the fund search
conc_search(c) ==
  /\ calls[c].pc = "search"
  /\ browsers' = Use(browsers, calls[c].driver, c)
  /\ \/ calls' = [calls EXCEPT ![c].pc = "loop"]
     \/ calls' = [calls EXCEPT ![c] = ConcFatal(@, St("wait_suggestion", 247))]
  /\ UNCHANGED << call_vars, popup_vars >>

\* lines 258-270 of call c: one iteration of the loop, or the return
conc_loop(c) ==
  /\ calls[c].pc = "loop"
  /\ LET cl == calls[c] IN
     IF cl.idx > Len(cl.data_points)
       THEN /\ calls' = [calls EXCEPT ![c].retval = <<cl.results>>, ![c].pc = "finally"]
            /\ UNCHANGED browsers
       ELSE LET dp == DataPointAt(cl.data_points, cl.idx) IN
            IF ~Lookup(dp).found
              THEN /\ calls' = [calls EXCEPT
                        ![c].results = DictSet(@, dp, ErrorFetching(dp, StrKeyError(dp))),
                        ![c].idx = @ + 1]
                   /\ UNCHANGED browsers
              ELSE /\ browsers' = Use(browsers, cl.driver, c)
                   /\ \/ \E raw \in RawTexts :
                           calls' = [calls EXCEPT
                             ![c].results = DictSet(@, dp, Strip(raw)),
                             ![c].read_from = @ \cup {cl.driver},
                             ![c].idx = @ + 1]
                      \/ calls' = [calls EXCEPT
                           ![c].results =
                              DictSet(@, dp, ErrorFetching(dp, StrExc(St("wait_value", 204)))),
                           ![c].idx = @ + 1]
  /\ UNCHANGED << call_vars, popup_vars >>

\* lines 279-286 of call c
conc_finally(c) ==
  /\ calls[c].pc = "finally"
  /\ IF ShouldQuit(calls[c].driver)
       THEN browsers' = [browsers EXCEPT ![calls[c].driver].quit_by = Append(@, c)]
       ELSE UNCHANGED browsers
  /\ calls' = [calls EXCEPT ![c].pc = "done"]
  /\ UNCHANGED << call_vars, popup_vars >>

ConcNext ==
  \E c \in Calls :
    \/ conc_get_driver(c)
    \/ conc_login(c)
    \/ conc_search(c)
    \/ conc_loop(c)
    \/ conc_finally(c)

ConcSpec == ConcInit /\ [][ConcNext]_vars

\* C11: under every interleaving of two calls, a browser is used and quit
\* only by the call that launched it, the two calls never hold the same
\* driver, and what a call returns has its own data points as keys and only
\* values read from its own browser.
C11_SessionsIndependent ==
  /\ \A h \in DOMAIN browsers :
       /\ browsers[h].users \subseteq {browsers[h].creator}
       /\ Len(browsers[h].quit_by) <= 1
       /\ \A n \in 1..Len(browsers[h].quit_by) : browsers[h].quit_by[n] = browsers[h].creator
  /\ \A c \in DOMAIN calls :
       /\ calls[c].driver # "None" =>
            /\ calls[c].driver \in DOMAIN browsers
            /\ browsers[calls[c].driver].creator = c
            /\ \A d \in DOMAIN calls : d # c => calls[d].driver # calls[c].driver
       /\ calls[c].read_from \subseteq {calls[c].driver}
       /\ calls[c].retval # <<>> =>
            DOMAIN calls[c].retval[1] = Range(calls[c].data_points)

C11_Witness ==
  /\ DOMAIN calls = Calls
  /\ calls[1].pc = "loop" /\ calls[1].read_from # {}
  /\ calls[2].pc = "search" /\ calls[2].driver # "None"
  /\ calls[1].data_points # calls[2].data_points
  /\ browsers[calls[2].driver].users = {2}

----------------------------------------------------------------------------
\* C12: once the fund page is reached, click_and_extract runs exactly once
\* for every requested kind that has a locator, however often the kind is
\* listed, and the kind has one entry in the result.  The code breaks it:
\* the loop of line 259 runs over the list, once per position.
C12_OncePerKind ==
  (pc = "done" /\ SearchDone) =>
    /\ retval # <<>>
    /\ \A k \in Range(data_points) :
         /\ k \in DOMAIN retval[1]
         /\ Registered(k) =>
              Cardinality({ n \in 1..Len(Extractions) : Extractions[n].arg = k }) = 1

----------------------------------------------------------------------------
\* The login state machine of the spec, read off the calls login has made:
\* FormOpened once the Sign-In click (148) returned, UsernameSubmitted once
\* the password field (164) was found, Authenticated once the search bar
\* (176) was found, AuthFailed once a call of login raised.

LoginOk(l, op) == \E j \in 1..Len(l) : l[j].fn = "login" /\ l[j].op = op /\ l[j].ok

\* the state the calls in l have reached, failure aside
AttemptedState(l) ==
  IF LoginOk(l, "wait_search_marker") THEN "Authenticated"
  ELSE IF LoginOk(l, "wait_password") THEN "UsernameSubmitted"
  ELSE IF LoginOk(l, "click_sign_in") THEN "FormOpened"
  ELSE "LoggedOut"

AuthState(l) ==
  IF \E j \in 1..Len(l) : l[j].fn = "login" /\ ~l[j].ok THEN "AuthFailed"
  ELSE AttemptedState(l)

AuthTransition(a, b) ==
  \/ a = b
  \/ a = "LoggedOut" /\ b = "FormOpened"
  \/ a = "FormOpened" /\ b = "UsernameSubmitted"
  \/ a = "UsernameSubmitted" /\ b = "Authenticated"
  \/ a \in {"LoggedOut", "FormOpened", "UsernameSubmitted"} /\ b = "AuthFailed"

\* C13 as stated: when login fails, the exception it raises names the last
\* attempted state.  It does not: login re-raises what Selenium raised.
C13_ErrorCarriesState ==
  (pc = "except" /\ LoginFailed) =>
    \E n \in 1..Len(exc) : exc[n] = AttemptedState(log)

\* C13, amended: the login flow moves LoggedOut -> FormOpened ->
\* UsernameSubmitted -> Authenticated one state at a time and never back; a
\* call of login that raises ends the flow in AuthFailed for good and the
\* exception that leaves login is Selenium's own, unchanged; login returns
\* normally only after the search bar of line 176 was found.
\* (The log grows one call at a time, so every prefix of a log is the log of
\* an earlier state: the transition made by the last call is checked in
\* every state.)
C13_LoginStateMachine ==
  /\ log # <<>> =>
       AuthTransition(AuthState(SubSeq(log, 1, Len(log) - 1)), AuthState(log))
  /\ \A j \in LogIdx :
       (log[j].fn = "login" /\ ~log[j].ok) =>
         /\ \A i \in (j + 1)..Len(log) : log[i].fn \notin {"login", "search"}
         /\ log[j].text = StrExc([op |-> log[j].op, line |-> log[j].line])
         /\ pc = "except" => exc = log[j].text
  /\ (pc \in {"search", "loop", "extract", "loop_except"}
        \/ \E j \in LogIdx : log[j].fn = "search")
       => /\ AuthState(log) = "Authenticated"
          /\ LoginOk(log, "wait_search_marker")

C13_Witness ==
  /\ pc = "done"
  /\ \E j \in LogIdx : log[j].fn = "login" /\ ~log[j].ok /\ log[j].op = "wait_submit"
  /\ AttemptedState(log) = "UsernameSubmitted"
  /\ AuthState(log) = "AuthFailed"

----------------------------------------------------------------------------
SameStep(e, f) == e.fn = f.fn /\ e.op = f.op /\ e.line = f.line /\ e.arg = f.arg

\* no call of login or of the search is made twice, login has run once when
\* the call is over with a driver, and a call of login, the search or
\* click_and_extract that raised is not made again for the same data point
NoStepRetried ==
  /\ \A i, j \in LogIdx :
       (i < j /\ log[i].fn \in {"login", "search"}) => ~SameStep(log[i], log[j])
  /\ (pc = "done" /\ driver # "None") =>
       Cardinality({ j \in LogIdx : log[j].fn = "login" /\ log[j].line = 136 }) = 1
  /\ \A i, j \in LogIdx :
       (i < j /\ ~log[i].ok /\ log[i].fn \in {"login", "search", "click_and_extract"})
         => ~SameStep(log[i], log[j])

\* C14: no step is retried: login runs once, the search at most once, and a
\* step that failed is never attempted again in the call.  The code breaks
\* it for a kind listed twice (C12): the second iteration runs the failed
\* extraction again.
C14_NoRetry == NoStepRetried

\* NoStepRetried holds of every call whose list names no kind twice.
NoRetryWithoutDuplicates ==
  Cardinality(Range(data_points)) = Len(data_points) => NoStepRetried

----------------------------------------------------------------------------
\* dismiss_popups alone, on a page (PopupSpec).  A page is a set of
\* elements; an element has the attributes the script of lines 105-128
\* looks at, and `overlay` says whether it is an obstruction.  Ids are unique
\* in a page.

\* Calls of dismiss_popups made in a row.
MaxDismiss == 2

\* parseInt(el.style.zIndex) > 1000 (line 124)
ZIndexLimit == 1000

El(name, tag, id, cls, role, position, z, overlay) ==
  [ name |-> name, tag |-> tag, id |-> id, cls |-> cls, role |-> role,
    position |-> position, z |-> z, overlay |-> overlay ]

\* The elements a page can hold (z = 0: no z-index set).
Elements ==
  { El("subscription", "div", "subscription-notification", "", "", "", 0, TRUE),
    El("backdrop", "div", "", "modal-backdrop", "", "", 0, TRUE),
    El("overlay", "div", "", "overlay", "", "", 0, TRUE),
    El("dialog", "section", "", "", "dialog", "", 0, TRUE),
    El("blocker", "div", "", "", "", "fixed", ZIndexLimit + 1, TRUE),
    El("header", "div", "", "", "", "fixed", ZIndexLimit, FALSE),
    El("badge", "span", "", "", "", "absolute", ZIndexLimit + 1, FALSE),
    El("value", "div", "", "sal-dp-value", "", "", 0, FALSE) }

\* lines 107-108: document.getElementById('subscription-notification')
Subscription(p) == { e \in p : e.id = "subscription-notification" }

\* Backdrops with querySelector in place of querySelectorAll: the first match only.
BackdropsFirstOnly(p) ==
  LET all == { e \in p : e.cls \in {"modal-backdrop", "popup-overlay", "overlay"} }
  IN  IF all = {} THEN {} ELSE { CHOOSE e \in all : TRUE }

\* lines 111-112: querySelectorAll('.modal-backdrop, .popup-overlay, .overlay')
Backdrops(p) == { e \in p : e.cls \in {"modal-backdrop", "popup-overlay", "overlay"} }

\* lines 115-119: querySelectorAll('.modal, .popup, [role="dialog"]')
Modals(p) == { e \in p : e.cls \in {"modal", "popup"} \/ e.role = "dialog" }

\* lines 122-127: fixed or absolute divs with a z-index above 1000
Blockers(p) ==
  { e \in p : /\ e.tag = "div"
              /\ e.position \in {"fixed", "absolute"}
              /\ e.z # 0 /\ e.z > ZIndexLimit }

\* The page after the first k of the four removals of the script ran.
ScriptUpTo(p, k) ==
  LET p1 == IF k >= 1 THEN p \ Subscription(p) ELSE p
      p2 == IF k >= 2 THEN p1 \ Backdrops(p1) ELSE p1
      p3 == IF k >= 3 THEN p2 \ Modals(p2) ELSE p2
      p4 == IF k >= 4 THEN p3 \ Blockers(p3) ELSE p3
  IN  p4

\* dismiss_popups, had it no try/except around execute_script.
DismissReturnsUnlessRaised(script_raised) == ~script_raised

\* lines 103, 129-130: whatever execute_script raises is caught and dropped;
\* dismiss_popups returns normally.
DismissReturns(script_raised) == TRUE

PopupInit ==
  /\ CallIdle
  /\ calls = <<>> /\ browsers = <<>>
  /\ page \in SUBSET Elements
  /\ popups = <<>>

\* dismiss_popups(driver), lines 101-130: the script runs to its end, or
\* execute_script raises after k of its removals were made.
dismiss_popups ==
  /\ Len(popups) < MaxDismiss
  /\ \E k \in 0..4, script_raised \in BOOLEAN :
       /\ k < 4 => script_raised
       /\ page' = ScriptUpTo(page, k)
       /\ popups' = Append(popups, [ before |-> page, ran |-> k,
                                     raised |-> script_raised,
                                     returned |-> DismissReturns(script_raised) ])
  /\ UNCHANGED << call_vars, conc_vars >>

PopupNext == dismiss_popups

PopupSpec == PopupInit /\ [][PopupNext]_vars

\* the page after the n-th call
PageAfter(n) == IF n = Len(popups) THEN page ELSE popups[n + 1].before

----------------------------------------------------------------------------
IsClick(e) ==
  e.op \in { "click_sign_in", "click_continue", "click_submit",
             "click_main_search", "click_suggestion", "click_overview_tab" }

IsDismiss(e) == e.op = "dismiss_popups"

\* the call logged at j comes after a dismiss_popups of the same function
\* (and the same data point), with no click between the two
Cleared(j) ==
  \E d \in 1..(j - 1) :
    LET i == j - d IN
    /\ IsDismiss(log[i])
    /\ log[i].fn = log[j].fn /\ log[i].arg = log[j].arg
    /\ \A m \in (i + 1)..(j - 1) : ~IsClick(log[m])

\* C16: dismiss_popups runs before the Sign-In click, as the very next call
\* after the search bar of line 176 was found, before every click on the
\* Overview tab and before every read of a value element, with no click
\* between the clearing and the call it protects.
C16_ClearingPrecedesClicks ==
  \A j \in LogIdx :
    /\ log[j].op = "click_sign_in" => Cleared(j)
    /\ log[j].op = "click_overview_tab" => Cleared(j)
    /\ log[j].op \in {"wait_value", "read_text"} => Cleared(j)
    /\ (log[j].op = "wait_search_marker" /\ log[j].ok) =>
         IF j = Len(log)
           THEN pc = "login" /\ IsDismiss(LoginSteps[step])
           ELSE IsDismiss(log[j + 1]) /\ log[j + 1].fn = "login"

C16_Witness ==
  /\ pc = "done" /\ Len(Extractions) = 2
  /\ Extractions[1].ok /\ Extractions[2].ok
  /\ Cardinality({ j \in LogIdx : IsDismiss(log[j]) }) = 8

----------------------------------------------------------------------------
\* get_driver has probed (its locals are set)
Probed == pc = "get_driver" /\ step >= 2

\* the binary chosen is the first candidate, in list order, that exists
FirstCandidateChosen ==
  Probed =>
    IF gd.replit
      THEN gd.binary_location = IF gd.chrome_bins = <<>> THEN "" ELSE gd.chrome_bins[1]
      ELSE IF gd.existing = {}
        THEN gd.binary_location = ""
        ELSE \E n \in 1..Len(chrome_binaries) :
               /\ gd.binary_location = chrome_binaries[n]
               /\ chrome_binaries[n] \in gd.existing
               /\ \A m \in 1..(n - 1) : chrome_binaries[m] \notin gd.existing

\* C17 as stated: the first existing candidate is used, and with no
\* candidate found get_driver fails without trying to launch a browser.
\* It does try: webdriver.Chrome is called with binary_location unset.
C17_NoLaunchWithoutCandidate ==
  /\ FirstCandidateChosen
  /\ (Probed /\ gd.binary_location = "") => (step = 2 /\ launched = 0)

\* C17, amended: the first existing candidate is used; with no candidate
\* found binary_location stays unset and the browser is launched all the
\* same, so get_driver raises only out of a webdriver.Chrome call or the
\* configuration of lines 97-98 (never out of the probing), and then every
\* requested data point gets that error and nothing else runs.
C17_ProbeThenLaunch ==
  /\ FirstCandidateChosen
  /\ \A j \in LogIdx :
       (log[j].fn = "get_driver" /\ ~log[j].ok /\ log[j].line # 93) =>
         /\ log[j].op \in {"Chrome", "configure"}
         /\ \E i \in 1..j : log[i].fn = "get_driver" /\ log[i].line \in {66, 68, 92, 93, 95}
  /\ GetDriverRaised =>
       /\ \A j \in LogIdx :
            log[j].fn \notin {"login", "search", "lookup", "click_and_extract"}
       /\ pc = "done" => AllMapTo(ErrorDuringFetch(FailText("get_driver")))

C17_Witness ==
  /\ pc = "get_driver" /\ step = 4
  /\ ~gd.replit /\ gd.existing = {} /\ gd.binary_location = ""
  /\ launched = 1

----------------------------------------------------------------------------
\* The kinds the function schema of app.py offers (app.py 39).
ExtractableKinds == {"mer", "performance", "fund_profile"}

\* One of the two error texts fetch_multiple_data records
IsErrorText(t) ==
  t # <<>> /\ t[1] \in {"Error fetching ", "Error during fetch process: "}

\* C18: every requested string outside {mer, performance, fund_profile} is
\* answered with an error text, never with a text read from the page.  The
\* code breaks it: 'overview_tab' is a key of XPATHS, so line 263 clicks that
\* locator and records its text.
C18_ClosedEnumeration ==
  (pc = "done" /\ retval # <<>>) =>
    \A k \in Range(data_points) \ ExtractableKinds : IsErrorText(retval[1][k])

----------------------------------------------------------------------------
\* a step before the loop raised out of the try block
FatalFailure == GetDriverRaised \/ LoginFailed \/ SearchFailed

\* the function whose failure was fatal
FatalFn ==
  IF GetDriverRaised THEN "get_driver" ELSE IF LoginFailed THEN "login" ELSE "search"

\* C19: a returned mapping is of one of two sorts.  After a failure before
\* the loop, no iteration ran and every entry is the one "Error during fetch
\* process" text of that failure.  Otherwise login and the search ran to
\* their end, the loop made one iteration per requested data point, and
\* every entry is what the last iteration for its key recorded: the stripped
\* text, or "Error fetching <key>" with that iteration's exception.  So an
\* entry that is no error text implies that login and the search succeeded.
C19_NoMixedOutcomes ==
  retval # <<>> =>
    /\ IF FatalFailure
         THEN /\ \A j \in LogIdx : ~InLoop(log[j])
              /\ AllMapTo(ErrorDuringFetch(FailText(FatalFn)))
         ELSE LET att == Attempts IN
              /\ LoginDone /\ SearchDone
              /\ Len(att) = Len(data_points)
              /\ \A n \in 1..Len(att) :
                   /\ att[n].arg = data_points[n]
                   /\ LastIn(att, n) => retval[1][att[n].arg] = Outcome(att[n])
    /\ \A k \in DOMAIN retval[1] :
         ~IsErrorText(retval[1][k]) => (LoginDone /\ SearchDone /\ ~FatalFailure)

C19_Witness ==
  /\ pc = "done" /\ retval # <<>>
  /\ \E k1, k2 \in DOMAIN retval[1] :
       /\ ~IsErrorText(retval[1][k1])
       /\ retval[1][k2][1] = "Error fetching "

----------------------------------------------------------------------------
IsQuit(e) == e.fn = "finally" /\ e.op = "quit"

\* C20: driver.quit() is called at most once, and when it is called the
\* result is already determined and no work remains (a step before the loop
\* failed, or the loop has made an iteration for every requested data
\* point); nothing is done with the driver after it: the quit is the last
\* call of the execution.
C20_QuitLast ==
  /\ quit_calls <= 1
  /\ \A j \in LogIdx :
       IsQuit(log[j]) =>
         /\ j = Len(log)
         /\ pc = "done"
         /\ quit_calls = 1
         /\ retval # <<>>
         /\ FatalFailure \/ Len(Attempts) = Len(data_points)
         /\ \A i \in 1..(j - 1) : ~IsQuit(log[i])

C20_Witness ==
  /\ pc = "done"
  /\ log # <<>> /\ IsQuit(log[Len(log)])
  /\ ~FatalFailure
  /\ Len(Attempts) = 2

====
